---- MODULE Spec2Model ----
(***************************************************************************)
(* Model of the candidate ranking engine (recommender_model.py):           *)
(* RecommenderModel.__init__ and RecommenderModel.rank with its helpers.   *)
(*                                                                         *)
(* Text is a sequence of one-character strings, so that lower(), split()   *)
(* and the regular expression (\d+)\s+years are computed character by      *)
(* character.  Floats are exact rationals <<num, den>>; weights are held   *)
(* in thousandths; a reported score is an integer number of hundredths of  *)
(* a point (10000 is 100.00).                                              *)
(***************************************************************************)
EXTENDS Integers, Sequences, FiniteSets, TLC

VARIABLES engine, ctor, call, memo, threads

vars == <<engine, ctor, call, memo, threads>>

----------------------------------------------------------------------------
(* Characters and strings                                                  *)

UpperChars == <<"A","B","C","D","E","F","G","H","I","J","K","L","M",
                "N","O","P","Q","R","S","T","U","V","W","X","Y","Z">>

LowerChars == <<"a","b","c","d","e","f","g","h","i","j","k","l","m",
                "n","o","p","q","r","s","t","u","v","w","x","y","z">>

DigitChars == <<"0","1","2","3","4","5","6","7","8","9">>

OtherChars == <<" ", "\t", ".", ",", ":", "-">>

Alphabet == UpperChars \o LowerChars \o DigitChars \o OtherChars

Range(s) == { s[i] : i \in 1..Len(s) }

\* ord(c): the position of the character in the alphabet
CharCode == [c \in Range(Alphabet) |->
               CHOOSE i \in 1..Len(Alphabet) : Alphabet[i] = c]

UpperSet == Range(UpperChars)

DigitSet == Range(DigitChars)

IsDigit(c) == c \in DigitSet

IsSpace(c) == c \in {" ", "\t"}

DigitValue(c) == CharCode[c] - CharCode["0"]

\* str.lower() on one character
LowerChar(c) ==
  IF c \in UpperSet THEN LowerChars[CharCode[c]] ELSE c

\* str.lower()
Lower(s) == [i \in 1..Len(s) |-> LowerChar(s[i])]

\* the index one past the run of whitespace that starts at i
RECURSIVE SkipSpaces(_, _)
SkipSpaces(s, i) ==
  IF i <= Len(s) /\ IsSpace(s[i]) THEN SkipSpaces(s, i + 1) ELSE i

\* the index one past the run of non-whitespace that starts at i
RECURSIVE SkipWord(_, _)
SkipWord(s, i) ==
  IF i <= Len(s) /\ ~IsSpace(s[i]) THEN SkipWord(s, i + 1) ELSE i

\* the index one past the run of digits that starts at i
RECURSIVE SkipDigits(_, _)
SkipDigits(s, i) ==
  IF i <= Len(s) /\ IsDigit(s[i]) THEN SkipDigits(s, i + 1) ELSE i

\* str.split(): the maximal runs of non-whitespace characters, in order
RECURSIVE SplitFrom(_, _)
SplitFrom(s, i) ==
  LET b == SkipSpaces(s, i)
      e == SkipWord(s, b)
  IN  IF b > Len(s) THEN <<>>
      ELSE <<SubSeq(s, b, e - 1)>> \o SplitFrom(s, e)

Split(s) == SplitFrom(s, 1)

\* sep.join(items)
RECURSIVE Join(_, _)
Join(sep, items) ==
  IF Len(items) = 0 THEN <<>>
  ELSE IF Len(items) = 1 THEN items[1]
  ELSE items[1] \o sep \o Join(sep, Tail(items))

\* int(text) for a run of decimal digits
RECURSIVE ParseInt(_)
ParseInt(s) ==
  IF Len(s) = 0 THEN 0
  ELSE 10 * ParseInt(SubSeq(s, 1, Len(s) - 1)) + DigitValue(s[Len(s)])

\* str(n) for an integer
RECURSIVE NatToStr(_)
NatToStr(n) ==
  IF n < 10 THEN <<DigitChars[n + 1]>>
  ELSE NatToStr(n \div 10) \o <<DigitChars[(n % 10) + 1]>>

IntToStr(n) == IF n < 0 THEN <<"-">> \o NatToStr(-n) ELSE NatToStr(n)

----------------------------------------------------------------------------
(* Python values of a candidate's fields: None (also a missing key), a     *)
(* list of strings, a string, an integer                                   *)

NoneVal == [t |-> "none", n |-> 0, s |-> <<>>, l |-> <<>>]

ListVal(items) == [t |-> "list", n |-> 0, s |-> <<>>, l |-> items]

StrVal(text) == [t |-> "str", n |-> 0, s |-> text, l |-> <<>>]

IntVal(k) == [t |-> "int", n |-> k, s |-> <<>>, l |-> <<>>]

\* bool(value): the truth value Python gives it
Truthy(v) ==
  CASE v.t = "none" -> FALSE
    [] v.t = "list" -> Len(v.l) > 0
    [] v.t = "str"  -> Len(v.s) > 0
    [] v.t = "int"  -> v.n # 0

----------------------------------------------------------------------------
(* Exact rationals <<num, den>> with den > 0, standing for floats          *)

Abs(x) == IF x < 0 THEN -x ELSE x

RECURSIVE Gcd(_, _)
Gcd(a, b) == IF b = 0 THEN a ELSE Gcd(b, a % b)

Rat(n, d) ==
  LET g == Gcd(Abs(n), d) IN IF n = 0 THEN <<0, 1>> ELSE <<n \div g, d \div g>>

RatAdd(x, y) == Rat(x[1] * y[2] + y[1] * x[2], x[2] * y[2])

RatMul(x, y) == Rat(x[1] * y[1], x[2] * y[2])

\* the integer nearest to x, a tie going to the even one
RoundHalfEven(x) ==
  LET q == x[1] \div x[2]
      r == x[1] - q * x[2]
  IN  IF 2 * r < x[2] THEN q
      ELSE IF 2 * r > x[2] THEN q + 1
      ELSE IF q % 2 = 0 THEN q ELSE q + 1

\* round(x * 100, 2), as a number of hundredths
RoundPercent(x) == RoundHalfEven(RatMul(x, <<10000, 1>>))

----------------------------------------------------------------------------
(* Helper functions of RecommenderModel                                    *)

\* _safe_list: the value if it is a list, else []
SafeList(v) == IF v.t = "list" THEN v.l ELSE <<>>

\* _safe_int: the value if it is an int, else None
SafeInt(v) == IF v.t = "int" THEN v ELSE NoneVal

SkillsLabel == <<"S","k","i","l","l","s",":"," ">>

ProjectsLabel == <<"P","r","o","j","e","c","t","s",":"," ">>

ExperienceLabel == <<"E","x","p","e","r","i","e","n","c","e",":"," ">>

YearsSuffix == <<" ","y","e","a","r","s">>

YearsWord == <<"y","e","a","r","s">>

CommaSep == <<",", " ">>

PartSep == <<".", " ">>

\* _candidate_to_text
CandidateToText(c) ==
  LET skills     == SafeList(c.skills)
      projects   == SafeList(c.projects)
      experience == SafeInt(c.experience_years)
      p1 == <<SkillsLabel \o Join(CommaSep, skills)>>
      p2 == IF Len(projects) > 0
            THEN <<ProjectsLabel \o Join(CommaSep, projects)>> ELSE <<>>
      p3 == IF experience.t # "none"
            THEN <<ExperienceLabel \o IntToStr(experience.n) \o YearsSuffix>>
            ELSE <<>>
  IN  Join(PartSep, p1 \o p2 \o p3)

\* the words a `for s in skills` loop yields, lowercased; a string yields
\* its characters
SkillWords(skills) ==
  IF skills.t = "list" THEN { Lower(skills.l[i]) : i \in 1..Len(skills.l) }
  ELSE { <<LowerChar(skills.s[i])>> : i \in 1..Len(skills.s) }

\* a skill score divided by the length of the skills list
SkillScoreOverList(job_desc, skills) ==
  LET job_words   == Range(Split(Lower(job_desc)))
      skill_words == SkillWords(skills)
  IN  IF skills.t \notin {"list", "str"}
      THEN [err |-> "TypeError", v |-> <<0, 1>>]
      ELSE [err |-> "",
            v   |-> Rat(Cardinality(job_words \cap skill_words),
                        Len(skills.l))]

\* _skill_score; iterating an int raises TypeError
SkillScore(job_desc, skills) ==
  LET job_words   == Range(Split(Lower(job_desc)))
      skill_words == SkillWords(skills)
  IN  IF skills.t \notin {"list", "str"}
      THEN [err |-> "TypeError", v |-> <<0, 1>>]
      ELSE [err |-> "",
            v   |-> Rat(Cardinality(job_words \cap skill_words),
                        Cardinality(skill_words))]

\* a pattern with \s in place of \s+
YearsMatchAtOneSpace(s, i) ==
  LET j == SkipDigits(s, i)
  IN  /\ j > i
      /\ j <= Len(s)
      /\ IsSpace(s[j])
      /\ j + Len(YearsWord) <= Len(s)
      /\ SubSeq(s, j + 1, j + Len(YearsWord)) = YearsWord

\* does (\d+)\s+years match with its first character at i
YearsMatchAt(s, i) ==
  LET j == SkipDigits(s, i)
      k == SkipSpaces(s, j)
  IN  /\ j > i
      /\ k > j
      /\ k + Len(YearsWord) - 1 <= Len(s)
      /\ SubSeq(s, k, k + Len(YearsWord) - 1) = YearsWord

\* re.search(r"(\d+)\s+years", s): group(1) of the leftmost match, or None
RECURSIVE SearchYears(_, _)
SearchYears(s, i) ==
  IF i > Len(s) THEN [found |-> FALSE, group |-> <<>>]
  ELSE IF YearsMatchAt(s, i)
       THEN [found |-> TRUE, group |-> SubSeq(s, i, SkipDigits(s, i) - 1)]
       ELSE SearchYears(s, i + 1)

\* the score of a candidate with experience and no stated requirement
MissingAsPresent == <<7, 10>>

\* the score of a candidate without experience_years
MissingExperience == <<3, 10>>

NoRequirement == <<7, 10>>

\* an experience score without the cap at 1.0
ExperienceScoreUncapped(job_desc, exp) ==
  LET match    == SearchYears(Lower(job_desc), 1)
      required == ParseInt(match.group)
  IN  IF exp.t = "none" THEN [err |-> "", v |-> MissingExperience]
      ELSE IF ~match.found THEN [err |-> "", v |-> NoRequirement]
      ELSE IF required = 0 THEN [err |-> "", v |-> NoRequirement]
      ELSE IF exp.t # "int" THEN [err |-> "TypeError", v |-> <<0, 1>>]
      ELSE [err |-> "", v |-> Rat(exp.n, required)]

\* _experience_score; dividing a non-number raises TypeError
ExperienceScore(job_desc, exp) ==
  LET match    == SearchYears(Lower(job_desc), 1)
      required == ParseInt(match.group)
  IN  IF exp.t = "none" THEN [err |-> "", v |-> MissingExperience]
      ELSE IF ~match.found THEN [err |-> "", v |-> NoRequirement]
      ELSE IF required = 0 THEN [err |-> "", v |-> NoRequirement]
      ELSE IF exp.t # "int" THEN [err |-> "TypeError", v |-> <<0, 1>>]
      ELSE [err |-> "",
            v   |-> IF exp.n >= required THEN <<1, 1>>
                    ELSE Rat(exp.n, required)]

----------------------------------------------------------------------------
(* The embedding capability (SentenceTransformer.encode with               *)
(* normalize_embeddings=True) and cosine_similarity.  The capability is    *)
(* external: it is stood for by deterministic functions from text to one   *)
(* of four vectors of equal norm, one function per model name.             *)

Directions == << <<5, 0>>, <<3, 4>>, <<0, 5>>, <<-4, 3>> >>

Dot(a, b) == a[1] * b[1] + a[2] * b[2]

RECURSIVE CodeSum(_)
CodeSum(text) ==
  IF Len(text) = 0 THEN 0 ELSE CharCode[Head(text)] + CodeSum(Tail(text))

DefaultModelName == "sentence-transformers/all-MiniLM-L6-v2"

OtherModelName == "sentence-transformers/paraphrase-MiniLM-L3-v2"

\* encoder.encode(text, normalize_embeddings=True)
Encode(encoder, text) ==
  IF encoder = DefaultModelName
  THEN Directions[(CodeSum(text) % Len(Directions)) + 1]
  ELSE Directions[(Len(text) % (Len(Directions) - 1)) + 1]

\* cosine_similarity([a], [b])[0][0] of two vectors of the common norm
CosineSimilarity(a, b) == Rat(Dot(a, b), Dot(Directions[1], Directions[1]))

----------------------------------------------------------------------------
(* RecommenderModel.rank                                                   *)

UnknownId == <<"U","N","K","N","O","W","N">>

\* candidate.get("id", "UNKNOWN")
CandidateId(c) == IF c.id.t = "none" THEN UnknownId ELSE c.id.s

\* a check that only looks for a missing skills value
EligibleIfPresent(c) == c.skills.t # "none"

\* the mandatory skills check: `if not skills: continue`
Eligible(c) == Truthy(c.skills)

ProjectPenalty == <<85, 100>>

NoPenalty == <<1, 1>>

\* no penalty for a candidate without projects
PenaltyIgnored(c) == NoPenalty

\* project_penalty = 0.85 if not projects else 1.0
PenaltyOf(c) ==
  IF Len(SafeList(c.projects)) = 0 THEN ProjectPenalty ELSE NoPenalty

Weight(w) == Rat(w, 1000)

\* the weighted sum of the four sub-scores
WeightedSum(eng, desc_similarity, title_similarity, skill_score, experience_score) ==
  RatAdd(RatAdd(RatMul(Weight(eng.job_desc_weight), desc_similarity),
                RatMul(Weight(eng.job_title_weight), title_similarity)),
         RatAdd(RatMul(Weight(eng.skill_weight), skill_score),
                RatMul(Weight(eng.experience_weight), experience_score)))

\* a penalty taken off the weighted sum instead of multiplying it
FinalScoreAdditive(eng, desc_similarity, title_similarity, skill_score, experience_score, project_penalty) ==
  RatAdd(WeightedSum(eng, desc_similarity, title_similarity, skill_score,
                     experience_score),
         RatAdd(project_penalty, <<-1, 1>>))

\* final_score = (weighted sum) * project_penalty
FinalScore(eng, desc_similarity, title_similarity, skill_score, experience_score, project_penalty) ==
  RatMul(WeightedSum(eng, desc_similarity, title_similarity, skill_score,
                     experience_score),
         project_penalty)

\* the local variables of the loop body once the similarities and the two
\* rule-based scores are computed, up to final_score
LocalsWith(eng, c, title_similarity, desc_similarity, skill, experience) ==
  [title_similarity |-> title_similarity,
   desc_similarity  |-> desc_similarity,
   skill            |-> skill,
   experience       |-> experience,
   project_penalty  |-> PenaltyOf(c),
   final_score      |-> FinalScore(eng, desc_similarity, title_similarity,
                                   skill.v, experience.v, PenaltyOf(c))]

\* the local variables of the loop body once the candidate is embedded
LocalsOfEmbedded(eng, job_title_emb, job_desc_emb, job_description, c, cand_emb) ==
  LocalsWith(eng, c,
             CosineSimilarity(job_title_emb, cand_emb),
             CosineSimilarity(job_desc_emb, cand_emb),
             SkillScore(job_description, c.skills),
             ExperienceScore(job_description, c.experience_years))

\* the local variables of the loop body for one candidate that passed the
\* skills check
ScoreLocals(eng, job_title_emb, job_desc_emb, job_description, c) ==
  LocalsOfEmbedded(eng, job_title_emb, job_desc_emb, job_description, c,
                   Encode(eng.encoder, CandidateToText(c)))

\* results.append({...}) from the local variables v, or the error raised
\* while they were computed
ResultOf(c, v) ==
  IF v.skill.err # "" THEN [err |-> v.skill.err, result |-> <<>>]
  ELSE IF v.experience.err # ""
  THEN [err |-> v.experience.err, result |-> <<>>]
  ELSE [err |-> "",
        result |-> <<[candidate_id     |-> CandidateId(c),
                      job_desc_score   |-> RoundPercent(v.desc_similarity),
                      job_title_score  |-> RoundPercent(v.title_similarity),
                      skill_score      |-> RoundPercent(v.skill.v),
                      experience_score |-> RoundPercent(v.experience.v),
                      final_score      |-> RoundPercent(v.final_score)]>>]

\* the body of the loop for one candidate that passed the skills check: the
\* result it appends, or the error it raises
ScoreCandidate(eng, job_title_emb, job_desc_emb, job_description, c) ==
  ResultOf(c, ScoreLocals(eng, job_title_emb, job_desc_emb, job_description,
                          c))

\* an iteration that catches the failure of the capability and goes on to
\* the next candidate
LoopStepSkipping(eng, job_title_emb, job_desc_emb, job_description, c, embedded, fail_at) ==
  IF ~Eligible(c) THEN [err |-> "", result |-> <<>>]
  ELSE IF fail_at = embedded + 1 THEN [err |-> "", result |-> <<>>]
  ELSE ScoreCandidate(eng, job_title_emb, job_desc_emb, job_description, c)

\* one iteration of the for loop: a skipped candidate, a failure of the
\* embedding capability, or the scoring of the candidate; embedded counts
\* the calls of _embed made so far and fail_at is the call at which the
\* capability fails (0: it does not fail)
LoopStep(eng, job_title_emb, job_desc_emb, job_description, c, embedded, fail_at) ==
  IF ~Eligible(c) THEN [err |-> "", result |-> <<>>]
  ELSE IF fail_at = embedded + 1
  THEN [err |-> "CapabilityError", result |-> <<>>]
  ELSE ScoreCandidate(eng, job_title_emb, job_desc_emb, job_description, c)

RECURSIVE RankLoop(_, _, _, _, _, _, _, _, _)

\* the rest of the loop after the iteration for the i-th candidate ended as
\* step: an error ends the call, a result is appended
LoopAfter(eng, job_title_emb, job_desc_emb, job_description, candidates, i, embedded, fail_at, results, step) ==
  IF step.err # "" THEN [err |-> step.err, results |-> <<>>]
  ELSE RankLoop(eng, job_title_emb, job_desc_emb, job_description,
                candidates, i + 1, embedded + Len(step.result), fail_at,
                results \o step.result)

\* the for loop over candidates from the i-th on
RankLoop(eng, job_title_emb, job_desc_emb, job_description, candidates, i, embedded, fail_at, results) ==
  IF i > Len(candidates) THEN [err |-> "", results |-> results]
  ELSE LoopAfter(eng, job_title_emb, job_desc_emb, job_description,
                 candidates, i, embedded, fail_at, results,
                 LoopStep(eng, job_title_emb, job_desc_emb, job_description,
                          candidates[i], embedded, fail_at))

\* an insertion before the equal ones, as an ascending sort that is
\* reversed afterwards places them
RECURSIVE InsertDescFirst(_, _)
InsertDescFirst(sorted, r) ==
  IF Len(sorted) = 0 THEN <<r>>
  ELSE IF Head(sorted).final_score > r.final_score
       THEN <<Head(sorted)>> \o InsertDescFirst(Tail(sorted), r)
       ELSE <<r>> \o sorted

\* list.insert keeping final_score descending, after the equal ones
RECURSIVE InsertDesc(_, _)
InsertDesc(sorted, r) ==
  IF Len(sorted) = 0 THEN <<r>>
  ELSE IF Head(sorted).final_score >= r.final_score
       THEN <<Head(sorted)>> \o InsertDesc(Tail(sorted), r)
       ELSE <<r>> \o sorted

\* a return of the results in scoring order
Unsorted(results) == results

\* sorted(results, key=lambda x: x["final_score"], reverse=True)
RECURSIVE SortedDesc(_)
SortedDesc(results) ==
  IF Len(results) = 0 THEN <<>>
  ELSE InsertDesc(SortedDesc(SubSeq(results, 1, Len(results) - 1)),
                  results[Len(results)])

\* the return statement: the loop's error, or its results sorted
Returning(looped) ==
  IF looped.err # "" THEN looped
  ELSE [err |-> "", results |-> SortedDesc(looped.results)]

\* rank(job_title, job_description, candidates): what the call returns or
\* raises; the job title is embedded first, the description second
Rank(eng, job_title, job_description, candidates, fail_at) ==
  IF fail_at \in {1, 2}
  THEN [err |-> "CapabilityError", results |-> <<>>]
  ELSE Returning(RankLoop(eng, Encode(eng.encoder, job_title),
                          Encode(eng.encoder, job_description),
                          job_description, candidates, 1, 2, fail_at, <<>>))

\* a rank call that writes a weight of the engine
EngineReweighted(eng) ==
  [eng EXCEPT !.job_desc_weight = eng.job_desc_weight + eng.experience_weight,
              !.experience_weight = 0]

\* a rank call that replaces the encoder of the engine
EngineReencoded(eng) == [eng EXCEPT !.encoder = OtherModelName]

\* the engine after a rank call: rank assigns no attribute of self
EngineAfterRank(eng) == eng

----------------------------------------------------------------------------
(* RecommenderModel.__init__                                               *)

Tolerance == 10

\* a check without the absolute value
WeightsAcceptedNoAbs(total) == total - 1000 < Tolerance

\* abs(total - 1.0) < 0.01, in thousandths
WeightsAccepted(total) == Abs(total - 1000) < Tolerance

WeightTotal(cfg) == cfg[1] + cfg[2] + cfg[3] + cfg[4]

DefaultWeights == <<600, 150, 150, 100>>

NoEngine ==
  [status |-> "none", job_desc_weight |-> 0, job_title_weight |-> 0,
   skill_weight |-> 0, experience_weight |-> 0, encoder |-> ""]

\* the object __init__ leaves behind, or the error it raises
NewEngine(cfg, model_name) ==
  IF WeightsAccepted(WeightTotal(cfg))
  THEN [err |-> "",
        eng |-> [status |-> "ready", job_desc_weight |-> cfg[1],
                 job_title_weight |-> cfg[2], skill_weight |-> cfg[3],
                 experience_weight |-> cfg[4], encoder |-> model_name]]
  ELSE [err |-> "AssertionError", eng |-> NoEngine]

----------------------------------------------------------------------------
(* Inputs                                                                  *)

MaxCandidates == 3

\* <<job_desc_weight, job_title_weight, skill_weight, experience_weight>>
WeightConfigs ==
  { DefaultWeights,
    <<600, 150, 150, 109>>, <<600, 150, 150, 91>>,
    <<600, 150, 150, 110>>, <<600, 150, 150, 90>>,
    <<1500, -500, 0, 0>>, <<600, 300, 300, 200>>, <<500, 150, 150, 100>> }

\* all the weight on the job description similarity
DescOnlyWeights == <<1000, 0, 0, 0>>

Python == <<"P","y","t","h","o","n">>

TitleML == <<"M","L">>

TitlePythonDev == <<"P","y","t","h","o","n"," ","D","e","v">>

\* "We need 2 years of Python experience."
ScenarioDescription ==
  <<"W","e"," ","n","e","e","d"," ","2"," ","y","e","a","r","s"," ","o","f"," ">>
    \o <<"P","y","t","h","o","n"," ","e","x","p","e","r","i","e","n","c","e",".">>

\* "python, sql.": no years pattern, punctuation next to the words
DescNoYears == <<"p","y","t","h","o","n",","," ","s","q","l",".">>

\* "0 years Python": a requirement of 0 years
DescZeroYears == <<"0"," ","y","e","a","r","s"," ","P","y","t","h","o","n">>

\* "python 2 years"
DescTwoYears == <<"p","y","t","h","o","n"," ","2"," ","y","e","a","r","s">>

\* "2years 12 <tab>YEARS": digits without whitespace first, then two
\* digits, two whitespace characters and upper case
DescTwoDigits == <<"2","y","e","a","r","s"," ","1","2"," ","\t","Y","E","A","R","S">>

JobDescriptions ==
  { ScenarioDescription, DescNoYears, DescZeroYears, DescTwoYears,
    DescTwoDigits }

\* the <<job_title, job_description>> pairs rank is called with
Jobs ==
  ({TitleML} \X JobDescriptions) \cup {<<TitlePythonDev, ScenarioDescription>>}

Candidate(id, skills, experience_years, projects) ==
  [id |-> id, skills |-> skills, experience_years |-> experience_years,
   projects |-> projects]

CandA == Candidate(StrVal(<<"A">>), ListVal(<<Python>>), IntVal(2), NoneVal)

CandB == Candidate(StrVal(<<"B">>), ListVal(<<Python>>), IntVal(1), NoneVal)

CandC == Candidate(StrVal(<<"C">>), ListVal(<<Python>>), NoneVal, NoneVal)

CandX == Candidate(StrVal(<<"X">>), ListVal(<<Python>>), IntVal(2),
                   ListVal(<< <<"E","T","L">> >>))

CandE == Candidate(StrVal(<<"E">>), ListVal(<<>>), IntVal(3),
                   ListVal(<< <<"X">> >>))

CandN == Candidate(StrVal(<<"N">>), NoneVal, IntVal(1), NoneVal)

CandS == Candidate(StrVal(<<"S">>),
                   ListVal(<< <<"S","Q","L">>, <<"p","y","t","h","o","n">>,
                              <<"S","q","l">> >>),
                   IntVal(5), ListVal(<<>>))

\* candidates as the request schema delivers them: skills and projects a
\* list or None, experience_years an int or None
ValidPool == {CandA, CandB, CandC, CandX, CandE, CandN, CandS}

\* candidates with fields of other types, as a direct caller may pass them
RawPool ==
  { CandA,
    Candidate(StrVal(<<"M">>), ListVal(<<Python>>), StrVal(<<"3">>), NoneVal),
    Candidate(StrVal(<<"I">>), IntVal(5), IntVal(2), NoneVal),
    Candidate(StrVal(<<"T">>), StrVal(<<"p","y">>), IntVal(2), NoneVal),
    Candidate(StrVal(<<"P">>), ListVal(<<Python>>), IntVal(2),
              StrVal(<<"X">>)),
    Candidate(NoneVal, ListVal(<<Python>>), NoneVal, IntVal(1)),
    Candidate(StrVal(<<"Z">>), IntVal(0), StrVal(<<"3">>), NoneVal) }

\* the lists of up to MaxCandidates candidates of the pool, every id unique
\* within a list
CandidateLists(pool) ==
  { l \in UNION { [1..n -> pool] : n \in 0..MaxCandidates } :
      \A i, j \in 1..Len(l) : i < j => l[i] # l[j] }

EligibleCount(candidates) ==
  Cardinality({ i \in 1..Len(candidates) : Eligible(candidates[i]) })

----------------------------------------------------------------------------
(* State machine: one engine, its construction and the calls of rank      *)

NoCall ==
  [done |-> FALSE, job_title |-> <<>>, job_description |-> <<>>,
   candidates |-> <<>>, fail_at |-> 0, err |-> "", results |-> <<>>]

NoCtor == [done |-> FALSE, cfg |-> <<0, 0, 0, 0>>, err |-> ""]

\* an outcome a caller kept, and whether it called rank again since
NoMemo == [done |-> FALSE, kept |-> NoCall, others |-> FALSE]

\* the calls of rank that the worker pool runs at the same time
MaxInFlight == 2

Workers == 1..MaxInFlight

\* the frame of a worker thread that runs no call of rank
IdleFrame ==
  [pc |-> "idle", job_title |-> <<>>, job_description |-> <<>>,
   candidates |-> <<>>, job_title_emb |-> <<0, 0>>,
   job_desc_emb |-> <<0, 0>>, i |-> 0, results |-> <<>>, err |-> ""]

Init ==
  /\ engine = NoEngine
  /\ ctor = NoCtor
  /\ call = NoCall
  /\ memo = NoMemo
  /\ threads = [w \in Workers |-> IdleFrame]

\* the arguments __init__ is called with: every weight configuration with
\* the default model, and the default weights and the weights without an
\* experience share with the other model
ConstructorArgs ==
  (WeightConfigs \X {DefaultModelName})
    \cup ({DefaultWeights, DescOnlyWeights} \X {OtherModelName})

\* RecommenderModel(model_name, job_desc_weight, ..., experience_weight)
Construct ==
  /\ engine.status # "ready"
  /\ \E args \in ConstructorArgs :
       LET made == NewEngine(args[1], args[2])
       IN  /\ engine' = made.eng
           /\ ctor' = [done |-> TRUE, cfg |-> args[1], err |-> made.err]
  /\ UNCHANGED <<call, memo, threads>>

\* the record of one call of rank on the engine
CallOf(eng, job_title, job_description, candidates, fail_at) ==
  LET out == Rank(eng, job_title, job_description, candidates, fail_at)
  IN  [done |-> TRUE, job_title |-> job_title,
       job_description |-> job_description, candidates |-> candidates,
       fail_at |-> fail_at, err |-> out.err, results |-> out.results]

\* the calls of _embed at which the capability may fail during one call
FailPoints(candidates, may_fail) ==
  IF may_fail THEN 0..(2 + EligibleCount(candidates)) ELSE {0}

\* model.rank(job_title, job_description, candidates) with the arguments
\* from the given sets; the caller holds the outcome in call
RankCall(jobs, lists, may_fail) ==
  /\ engine.status = "ready"
  /\ ~call.done
  /\ \E job \in jobs, candidates \in lists :
       \E fail_at \in FailPoints(candidates, may_fail) :
         call' = CallOf(engine, job[1], job[2], candidates, fail_at)
  /\ engine' = EngineAfterRank(engine)

RankValid ==
  /\ RankCall(Jobs, CandidateLists(ValidPool), FALSE)
  /\ UNCHANGED <<ctor, memo, threads>>

RankRaw ==
  /\ RankCall(Jobs, CandidateLists(RawPool), FALSE)
  /\ UNCHANGED <<ctor, memo, threads>>

\* the caller drops the outcome of the call: nothing of a call is kept
Discard ==
  /\ call.done
  /\ call' = NoCall
  /\ UNCHANGED <<engine, ctor, memo, threads>>

Next == Construct \/ RankValid \/ Discard

Spec == Init /\ [][Next]_vars

NextRaw == Construct \/ RankRaw \/ Discard

SpecRaw == Init /\ [][NextRaw]_vars

\* A caller that keeps the outcome of one call, makes other calls and then
\* repeats the kept call with identical arguments.

RepeatPool == {CandA, CandX, CandE, CandS}

RankFirst ==
  /\ ~memo.done
  /\ RankCall(Jobs, CandidateLists(RepeatPool), FALSE)
  /\ UNCHANGED <<ctor, memo, threads>>

Remember ==
  /\ call.done
  /\ ~memo.done
  /\ memo' = [done |-> TRUE, kept |-> call, others |-> FALSE]
  /\ call' = NoCall
  /\ UNCHANGED <<engine, ctor, threads>>

RankBetween ==
  /\ memo.done
  /\ RankCall({<<memo.kept.job_title, memo.kept.job_description>>},
              CandidateLists({CandB}), FALSE)
  /\ memo' = [memo EXCEPT !.others = TRUE]
  /\ UNCHANGED <<ctor, threads>>

RankAgain ==
  /\ memo.done
  /\ RankCall({<<memo.kept.job_title, memo.kept.job_description>>},
              {memo.kept.candidates}, FALSE)
  /\ UNCHANGED <<ctor, memo, threads>>

NextRepeat ==
  Construct \/ RankFirst \/ Remember \/ RankBetween \/ RankAgain \/ Discard

SpecRepeat == Init /\ [][NextRepeat]_vars

\* Calls of rank during which the embedding capability fails once, at its
\* fail_at-th call, and works again afterwards.

FailPool == {CandA, CandX, CandE, CandS}

RankFailing ==
  /\ RankCall(Jobs, CandidateLists(FailPool), TRUE)
  /\ UNCHANGED <<ctor, memo, threads>>

NextFail == Construct \/ RankFailing \/ Discard

SpecFail == Init /\ [][NextFail]_vars

\* The serving boundary: the engine that save_model.py pickled is loaded
\* once, and every request runs model.rank on a thread of the worker pool.
\* A thread's frame holds the local variables of its call; the threads
\* share the engine only.  A step of a thread is one statement of rank that
\* reads the engine: an _embed call, an iteration of the loop, the return.

\* RecommenderModel() as save_model.py constructs it
LoadedEngine == NewEngine(DefaultWeights, DefaultModelName)

\* pickle.load at the start of the service
Load ==
  /\ engine.status # "ready"
  /\ engine' = LoadedEngine.eng
  /\ ctor' = [done |-> TRUE, cfg |-> DefaultWeights, err |-> LoadedEngine.err]
  /\ UNCHANGED <<call, memo, threads>>

PoolJobs == {<<TitleML, ScenarioDescription>>, <<TitlePythonDev, DescTwoYears>>}

PoolCandidates == {CandA, CandX}

PoolLists == CandidateLists(PoolCandidates)

\* run_in_executor(executor, model.rank, job_title, job_desc, candidates)
Submit(w) ==
  /\ engine.status = "ready"
  /\ threads[w].pc = "idle"
  /\ \E job \in PoolJobs, candidates \in PoolLists :
       threads' = [threads EXCEPT ![w] =
                     [IdleFrame EXCEPT !.pc = "embed_title",
                                       !.job_title = job[1],
                                       !.job_description = job[2],
                                       !.candidates = candidates]]
  /\ UNCHANGED <<engine, ctor, call, memo>>

\* job_title_emb = self._embed(job_title)
EmbedTitle(w) ==
  /\ threads[w].pc = "embed_title"
  /\ threads' = [threads EXCEPT
                   ![w].job_title_emb =
                     Encode(engine.encoder, threads[w].job_title),
                   ![w].pc = "embed_desc"]
  /\ UNCHANGED <<engine, ctor, call, memo>>

\* job_desc_emb = self._embed(job_description); results = []
EmbedDesc(w) ==
  /\ threads[w].pc = "embed_desc"
  /\ threads' = [threads EXCEPT
                   ![w].job_desc_emb =
                     Encode(engine.encoder, threads[w].job_description),
                   ![w].i = 1,
                   ![w].pc = "loop"]
  /\ UNCHANGED <<engine, ctor, call, memo>>

\* the frame after the iteration of the loop ended as step
FrameAfter(frame, step) ==
  IF step.err # ""
  THEN [frame EXCEPT !.pc = "done", !.err = step.err, !.results = <<>>]
  ELSE [frame EXCEPT !.i = frame.i + 1,
                     !.results = frame.results \o step.result]

\* one iteration of `for candidate in candidates`
Iterate(w) ==
  /\ threads[w].pc = "loop"
  /\ threads[w].i <= Len(threads[w].candidates)
  /\ threads' = [threads EXCEPT ![w] =
                   FrameAfter(threads[w],
                              LoopStep(engine, threads[w].job_title_emb,
                                       threads[w].job_desc_emb,
                                       threads[w].job_description,
                                       threads[w].candidates[threads[w].i],
                                       0, 0))]
  /\ UNCHANGED <<engine, ctor, call, memo>>

\* return sorted(results, ...): the call ends and leaves the engine as rank
\* leaves it
Return(w) ==
  /\ threads[w].pc = "loop"
  /\ threads[w].i > Len(threads[w].candidates)
  /\ threads' = [threads EXCEPT
                   ![w].results = SortedDesc(threads[w].results),
                   ![w].pc = "done"]
  /\ engine' = EngineAfterRank(engine)
  /\ UNCHANGED <<ctor, call, memo>>

\* the awaiting request handler takes the outcome and the thread is free
Respond(w) ==
  /\ threads[w].pc = "done"
  /\ threads' = [threads EXCEPT ![w] = IdleFrame]
  /\ UNCHANGED <<engine, ctor, call, memo>>

NextPool ==
  \/ Load
  \/ \E w \in Workers :
       \/ Submit(w)
       \/ EmbedTitle(w)
       \/ EmbedDesc(w)
       \/ Iterate(w)
       \/ Return(w)
       \/ Respond(w)

SpecPool == Init /\ [][NextPool]_vars

----------------------------------------------------------------------------
(* Properties                                                              *)

Returned == call.done /\ call.err = ""

\* the number of positions of seq whose element satisfies Test
CountIf(seq, Test(_)) == Cardinality({ i \in 1..Len(seq) : Test(seq[i]) })

HasSkillsList(c) == c.skills.t = "list" /\ Len(c.skills.l) > 0

\* C1: the list rank returns holds exactly one result for each input
\* candidate whose skills list is non-empty, carrying that candidate's id,
\* and no result for a candidate whose skills is missing or empty: for
\* every id, as many results carry it as candidates with a non-empty skills
\* list do, and the list is as long as the number of those candidates.
C1_OneResultPerSkilledCandidate ==
  Returned =>
    /\ Len(call.results) = CountIf(call.candidates, HasSkillsList)
    /\ \A c \in Range(call.candidates) :
         LET SameId(r) == r.candidate_id = CandidateId(c)
             SkilledSameId(d) ==
               HasSkillsList(d) /\ CandidateId(d) = CandidateId(c)
         IN  CountIf(call.results, SameId)
               = CountIf(call.candidates, SkilledSameId)
    /\ \A r \in Range(call.results) :
         \E c \in Range(call.candidates) :
           HasSkillsList(c) /\ CandidateId(c) = r.candidate_id

\* a returned call whose input held a candidate with skills, one with
\* skills missing and one with an empty skills list
C1_Witness ==
  /\ Returned
  /\ Len(call.results) > 0
  /\ \E c \in Range(call.candidates) : c.skills.t = "none"
  /\ \E c \in Range(call.candidates) :
       c.skills.t = "list" /\ Len(c.skills.l) = 0

\* the candidate with its malformed fields replaced by their defensive
\* defaults: a non-list skills or projects by an empty list, a non-integer
\* experience_years by None
Coerced(c) ==
  [id               |-> c.id,
   skills           |-> IF c.skills.t \in {"list", "none"} THEN c.skills
                        ELSE ListVal(<<>>),
   experience_years |-> IF c.experience_years.t = "int"
                        THEN c.experience_years ELSE NoneVal,
   projects         |-> IF c.projects.t \in {"list", "none"} THEN c.projects
                        ELSE ListVal(<<>>)]

CoercedAll(candidates) ==
  [i \in 1..Len(candidates) |-> Coerced(candidates[i])]

\* C2: with the embedding capability not failing, rank never raises because
\* of a malformed candidate field, and returns what it returns for the
\* candidates with every non-list skills or projects replaced by an empty
\* list and every non-integer experience_years by None.
C2_MalformedFieldsCoerced ==
  (call.done /\ call.fail_at = 0) =>
    /\ call.err = ""
    /\ call.results = Rank(engine, call.job_title, call.job_description,
                           CoercedAll(call.candidates), 0).results

\* C3: construction succeeds only for weights that sum to 1.0 within 0.01,
\* every configuration outside that tolerance fails with the assertion
\* error and leaves no engine, and rank is called on a constructed engine
\* only.
C3_WeightsWithinTolerance ==
  /\ ctor.done =>
       /\ ctor.err = "" =>
            /\ Abs(WeightTotal(ctor.cfg) - 1000) <= Tolerance
            /\ engine.status = "ready"
       /\ Abs(WeightTotal(ctor.cfg) - 1000) > Tolerance =>
            /\ ctor.err = "AssertionError"
            /\ engine.status # "ready"
  /\ engine.status = "ready" =>
       Abs(engine.job_desc_weight + engine.job_title_weight
           + engine.skill_weight + engine.experience_weight - 1000)
         <= Tolerance
  /\ call.done => engine.status = "ready"

\* a construction that failed on weights outside the tolerance
C3_Witness ==
  /\ ctor.done
  /\ ctor.err = "AssertionError"
  /\ Abs(WeightTotal(ctor.cfg) - 1000) > Tolerance
  /\ engine.status = "none"

\* C4: final_score is non-increasing along the list rank returns.
C4_FinalScoreNonIncreasing ==
  Returned =>
    \A i, j \in 1..Len(call.results) :
      i < j => call.results[i].final_score >= call.results[j].final_score

\* a returned list of three distinct scores that the scoring order did not
\* already have in descending order
C4_Witness ==
  /\ Returned
  /\ Len(call.results) >= 3
  /\ \A i, j \in 1..Len(call.results) :
       i < j => call.results[i].final_score > call.results[j].final_score
  /\ call.results #
       RankLoop(engine, Encode(engine.encoder, call.job_title),
                Encode(engine.encoder, call.job_description),
                call.job_description, call.candidates, 1, 2, 0, <<>>).results

InRange(x) == 0 <= x /\ x <= 10000

SimilaritiesInRange(r) ==
  InRange(r.job_desc_score) /\ InRange(r.job_title_score)

AllFieldsInRange(r) ==
  /\ InRange(r.job_desc_score)
  /\ InRange(r.job_title_score)
  /\ InRange(r.skill_score)
  /\ InRange(r.experience_score)
  /\ InRange(r.final_score)

\* skills a non-empty list or missing, experience_years missing or a
\* non-negative integer
ValidCandidate(c) ==
  /\ c.skills.t \in {"list", "none"}
  /\ c.projects.t \in {"list", "none"}
  /\ c.experience_years.t \in {"int", "none"}
  /\ c.experience_years.n >= 0

ValidInput == \A c \in Range(call.candidates) : ValidCandidate(c)

\* C5 as stated: for every engine the constructor accepts and every valid
\* candidate list, a result whose two similarity values lie in [0,1] has
\* all five numeric fields in [0,100].
C5_AcceptedEngineScoresInRange ==
  (Returned /\ ValidInput) =>
    \A r \in Range(call.results) :
      SimilaritiesInRange(r) => AllFieldsInRange(r)

NormalizedWeights(eng) ==
  /\ eng.job_desc_weight >= 0
  /\ eng.job_title_weight >= 0
  /\ eng.skill_weight >= 0
  /\ eng.experience_weight >= 0
  /\ eng.job_desc_weight + eng.job_title_weight + eng.skill_weight
       + eng.experience_weight <= 1000

\* C5 amended: for every engine whose four weights are non-negative and sum
\* to at most 1.0 and every valid candidate list, a result whose two
\* similarity values lie in [0,1] has all five numeric fields in [0,100].
C5_NormalizedEngineScoresInRange ==
  (Returned /\ ValidInput /\ NormalizedWeights(engine)) =>
    \A r \in Range(call.results) :
      SimilaritiesInRange(r) => AllFieldsInRange(r)

\* a result of an engine with normalized weights that reaches 100.00 in a
\* sub-score, with the candidate's experience above the requirement
C5_Witness ==
  /\ Returned
  /\ ValidInput
  /\ NormalizedWeights(engine)
  /\ \E i \in 1..Len(call.results) :
       /\ SimilaritiesInRange(call.results[i])
       /\ call.results[i].experience_score = 10000
       /\ call.results[i].candidate_id = CandidateId(CandS)
       /\ call.results[i].final_score > 0

\* the call's results that carry the id of candidate c
ResultsFor(c) ==
  { r \in Range(call.results) : r.candidate_id = CandidateId(c) }

\* the local variables rank computes for candidate c of the call
CallLocals(c) ==
  ScoreLocals(engine, Encode(engine.encoder, call.job_title),
              Encode(engine.encoder, call.job_description),
              call.job_description, c)

SameInput(a, b) ==
  /\ a.job_title = b.job_title
  /\ a.job_description = b.job_description
  /\ a.candidates = b.candidates
  /\ a.fail_at = b.fail_at

\* C6: a call of rank with the job title, job description and candidate
\* list of an earlier call on the same engine has the outcome of that
\* earlier call, the same results in the same order, whatever calls were
\* made in between.
C6_RepeatedCallSameResults ==
  (memo.done /\ call.done /\ SameInput(call, memo.kept)) =>
    /\ call.err = memo.kept.err
    /\ call.results = memo.kept.results

\* a repeated call that returned two results or more, after another call
\* was made in between
C6_Witness ==
  /\ memo.done
  /\ memo.others
  /\ call.done
  /\ SameInput(call, memo.kept)
  /\ call.err = ""
  /\ Len(call.results) >= 2

\* the characters of s at i..j are decimal digits
DigitsAt(s, i, j) ==
  \A p \in i..j : s[p] \in {"0","1","2","3","4","5","6","7","8","9"}

\* the text s matches <digits> <whitespace> years with the digits at i..j
\* and the word starting at k
YearsPatternAt(s, i, j, k) ==
  /\ 1 <= i /\ i <= j /\ j + 1 < k /\ k + 4 <= Len(s)
  /\ DigitsAt(s, i, j)
  /\ \A p \in (j + 1)..(k - 1) : s[p] \in {" ", "\t"}
  /\ <<s[k], s[k + 1], s[k + 2], s[k + 3], s[k + 4]>>
       = <<"y", "e", "a", "r", "s">>

\* the ends j of the digits of a match that starts at i
PatternEnds(s, i) ==
  { j \in i..Len(s) :
      DigitsAt(s, i, j)
        /\ \E k \in (j + 2)..Len(s) : YearsPatternAt(s, i, j, k) }

PatternStarts(s) == { i \in 1..Len(s) : PatternEnds(s, i) # {} }

RECURSIVE DecimalValue(_, _, _)
DecimalValue(s, i, j) ==
  IF j < i THEN 0
  ELSE 10 * DecimalValue(s, i, j - 1)
       + (CHOOSE d \in 0..9 : DigitChars[d + 1] = s[j])

\* the integer of the first match of the pattern in s, -1 without a match
FirstRequiredYears(s) ==
  LET starts == PatternStarts(s)
  IN  IF starts = {} THEN -1
      ELSE LET i == CHOOSE x \in starts : \A y \in starts : x <= y
               j == CHOOSE x \in PatternEnds(s, i) : TRUE
           IN  DecimalValue(s, i, j)

\* the stated rule, as a number of hundredths of a point, for a description
\* whose first match holds the integer required (-1 without a match)
StatedExperienceScore(required, exp) ==
  IF exp.t = "none" THEN 3000
  ELSE IF required <= 0 THEN 7000
  ELSE IF exp.n >= required THEN 10000
  ELSE RoundHalfEven(<<exp.n * 10000, required>>)

\* C7: the experience_score reported for every scored candidate follows the
\* rule: 30.00 when experience_years is absent; 70.00 when it is present
\* and the job description has no "<integer> years" pattern or the first
\* such integer is 0; otherwise min(candidate_years / required_years, 1.0)
\* with required_years the integer of the first case-insensitive match.
C7_ExperienceScoreRule ==
  Returned =>
    LET required == FirstRequiredYears(Lower(call.job_description))
    IN  \A c \in Range(call.candidates) :
          \A r \in ResultsFor(c) :
            r.experience_score
              = StatedExperienceScore(required, c.experience_years)

\* a returned call that scored a candidate without experience_years and a
\* candidate whose years fall short of the requirement, for a description
\* whose first match is not its first run of digits
C7_Witness ==
  /\ Returned
  /\ call.job_description = DescTwoDigits
  /\ \E c \in Range(call.candidates) :
       c.experience_years.t = "none" /\ ResultsFor(c) # {}
  /\ \E c \in Range(call.candidates) :
       /\ c.experience_years.t = "int"
       /\ \E r \in ResultsFor(c) :
            0 < r.experience_score /\ r.experience_score < 7000

IdsInOrder == [i \in 1..Len(call.results) |-> call.results[i].candidate_id]

ScenarioCall ==
  /\ Returned
  /\ call.job_description = ScenarioDescription
  /\ Len(call.candidates) = 3
  /\ Range(call.candidates) = {CandA, CandB, CandC}

\* the three candidates got the same two similarity values
OtherFactorsEqual ==
  \A r, q \in Range(call.results) :
    /\ r.job_desc_score = q.job_desc_score
    /\ r.job_title_score = q.job_title_score

ScenarioScores ==
  /\ \A r \in ResultsFor(CandA) : r.experience_score = 10000
  /\ \A r \in ResultsFor(CandB) : r.experience_score = 5000
  /\ \A r \in ResultsFor(CandC) : r.experience_score = 3000
  /\ Len(call.results) = 3

ScenarioOrder ==
  IdsInOrder = <<CandidateId(CandA), CandidateId(CandB), CandidateId(CandC)>>

\* C8 as stated: for the job description "We need 2 years of Python
\* experience." and the candidates A (2 years), B (1 year) and C (no
\* experience_years), all with skills ["Python"], in any input order and
\* for every engine, the experience_score values are 100.00, 50.00 and
\* 30.00, and with all other factors equal rank returns A above B above C.
C8_ScenarioOrderAnyEngine ==
  ScenarioCall =>
    /\ ScenarioScores
    /\ OtherFactorsEqual => ScenarioOrder

\* the experience weight is at least 0.001, so that the composites of A, B
\* and C are far enough apart to differ after rounding to two decimals
ExperienceWeighs(eng) == eng.experience_weight >= 1

\* C8 amended: the experience_score values are 100.00, 50.00 and 30.00 for
\* every engine, and rank returns A above B above C when all other factors
\* are equal and the engine's experience weight is at least 0.001.
C8_ScenarioExperienceOrder ==
  ScenarioCall =>
    /\ ScenarioScores
    /\ (OtherFactorsEqual /\ ExperienceWeighs(engine)) => ScenarioOrder

\* the scenario with the candidates passed in the order C, B, A and all
\* other factors equal
C8_Witness ==
  /\ ScenarioCall
  /\ call.candidates = <<CandC, CandB, CandA>>
  /\ OtherFactorsEqual
  /\ ExperienceWeighs(engine)
  /\ ScenarioOrder

HasProjects(c) == c.projects.t = "list" /\ Len(c.projects.l) > 0

\* y is x in every field but the id, with no projects where x has some
SameButProjects(x, y) ==
  /\ x.skills = y.skills
  /\ x.experience_years = y.experience_years
  /\ HasProjects(x)
  /\ ~HasProjects(y)
  /\ Eligible(x)

SameSimilarities(x, y) ==
  /\ CallLocals(x).title_similarity = CallLocals(y).title_similarity
  /\ CallLocals(x).desc_similarity = CallLocals(y).desc_similarity

\* C9 as stated: a candidate identical to another in every field except
\* having an empty or missing projects list gets a composite score, before
\* final rounding, of exactly 0.85 times the composite of the other.
C9_CompositeIs85PercentOfTwin ==
  Returned =>
    \A x, y \in Range(call.candidates) :
      SameButProjects(x, y) =>
        CallLocals(y).final_score
          = RatMul(<<85, 100>>, CallLocals(x).final_score)

\* the weighted sum of the four sub-scores held in the locals v, written out
OwnWeightedSum(v) ==
  LET n == engine.job_desc_weight * v.desc_similarity[1]
             * v.title_similarity[2] * v.skill.v[2] * v.experience.v[2]
           + engine.job_title_weight * v.title_similarity[1]
             * v.desc_similarity[2] * v.skill.v[2] * v.experience.v[2]
           + engine.skill_weight * v.skill.v[1]
             * v.desc_similarity[2] * v.title_similarity[2] * v.experience.v[2]
           + engine.experience_weight * v.experience.v[1]
             * v.desc_similarity[2] * v.title_similarity[2] * v.skill.v[2]
      d == 1000 * v.desc_similarity[2] * v.title_similarity[2]
             * v.skill.v[2] * v.experience.v[2]
  IN  Rat(n, d)

\* C9 amended: the composite of a candidate without projects is exactly
\* 0.85 times the weighted sum of its own four sub-scores (the penalty
\* multiplies the whole sum), the composite of a candidate with projects is
\* that sum itself, and so the candidate without projects scores exactly
\* 0.85 times the composite of its twin with projects whenever the two get
\* the same two similarity values; the reported final_score is the
\* composite times 100, rounded.
C9_PenaltyMultipliesWeightedSum ==
  Returned =>
    /\ \A c \in Range(call.candidates) :
         Eligible(c) =>
           LET v == CallLocals(c)
               w == OwnWeightedSum(v)
           IN  /\ v.final_score
                    = IF HasProjects(c) THEN w
                      ELSE Rat(85 * w[1], 100 * w[2])
               /\ \A r \in ResultsFor(c) :
                    r.final_score = RoundPercent(v.final_score)
    /\ \A x, y \in Range(call.candidates) :
         (SameButProjects(x, y) /\ SameSimilarities(x, y)) =>
           CallLocals(y).final_score
             = RatMul(<<85, 100>>, CallLocals(x).final_score)

\* a returned call with twins that got the same similarity values and a
\* positive composite
C9_Witness ==
  /\ Returned
  /\ \E x, y \in Range(call.candidates) :
       /\ SameButProjects(x, y)
       /\ SameSimilarities(x, y)
       /\ CallLocals(x).final_score[1] > 0

\* C10 as stated: of two candidates with identical skills and experience,
\* X with a non-empty projects list and Y without projects, the final_score
\* reported for X is strictly greater than the one reported for Y.
C10_ProjectsScoreStrictlyHigher ==
  Returned =>
    \A x, y \in Range(call.candidates) :
      SameButProjects(x, y) =>
        \A rx \in ResultsFor(x), ry \in ResultsFor(y) :
          rx.final_score > ry.final_score

\* C10 amended: when the two candidates get the same two similarity values
\* and the final_score reported for X is at least 0.07, it is strictly
\* greater than the final_score reported for Y.
C10_ProjectsScoreHigherWhenComparable ==
  Returned =>
    \A x, y \in Range(call.candidates) :
      (SameButProjects(x, y) /\ SameSimilarities(x, y)) =>
        \A rx \in ResultsFor(x), ry \in ResultsFor(y) :
          rx.final_score >= 7 => rx.final_score > ry.final_score

\* a returned call where X, with projects, is passed after its twin Y and
\* both got the same similarity values
C10_Witness ==
  /\ Returned
  /\ call.candidates = <<CandA, CandX>>
  /\ SameSimilarities(CandX, CandA)
  /\ \E rx \in ResultsFor(CandX), ry \in ResultsFor(CandA) :
       rx.final_score >= 7 /\ rx.final_score > ry.final_score

\* what the call in the frame returns or raises when it runs alone on the
\* engine as loaded
AloneOutcome(frame) ==
  Rank(LoadedEngine.eng, frame.job_title, frame.job_description,
       frame.candidates, 0)

\* C11: whatever calls of rank run at the same time on the engine, every
\* call that ended has the outcome it has when it runs alone, and the
\* engine keeps the weights and the encoder it was loaded with.
C11_ConcurrentCallsDoNotInterfere ==
  /\ engine.status = "ready" => engine = LoadedEngine.eng
  /\ \A w \in Workers :
       threads[w].pc = "done" =>
         LET alone == AloneOutcome(threads[w])
         IN  /\ threads[w].err = alone.err
             /\ threads[w].results = alone.results

\* a call that ended with two results while another call, with another job
\* and another candidate list, is in the middle of its loop
C11_Witness ==
  \E w, v \in Workers :
    /\ threads[w].pc = "done"
    /\ Len(threads[w].results) = 2
    /\ threads[v].pc = "loop"
    /\ threads[v].i = 2
    /\ Len(threads[v].candidates) = 2
    /\ threads[v].candidates # threads[w].candidates
    /\ threads[v].job_title # threads[w].job_title

\* C12: a call of rank during which the embedding capability fails, at the
\* job title, the job description or any scored candidate, raises the
\* capability's error and returns no result, although a second attempt at
\* the failed _embed call would have worked; a call during which it does
\* not fail returns the whole list, one result per scored candidate.
C12_EmbeddingFailureFailsTheCall ==
  call.done =>
    /\ call.fail_at # 0 =>
         /\ call.err = "CapabilityError"
         /\ call.results = <<>>
    /\ call.fail_at = 0 =>
         /\ call.err = ""
         /\ Len(call.results) = EligibleCount(call.candidates)

\* a call that failed at the embedding of its second scored candidate,
\* after one candidate was scored and one was skipped
C12_Witness ==
  /\ call.done
  /\ call.fail_at = 4
  /\ call.err = "CapabilityError"
  /\ Len(call.candidates) = 3
  /\ ~Eligible(call.candidates[2])
  /\ call.results = <<>>

\* word is one of the whitespace-separated tokens of s: a run of characters
\* without whitespace, with whitespace or an end of s on either side
IsTokenOf(word, s) ==
  /\ Len(word) > 0
  /\ \A p \in 1..Len(word) : word[p] \notin {" ", "\t"}
  /\ \E i \in 1..(Len(s) - Len(word) + 1) :
       /\ SubSeq(s, i, i + Len(word) - 1) = word
       /\ (i = 1 \/ s[i - 1] \in {" ", "\t"})
       /\ (i + Len(word) - 1 = Len(s) \/ s[i + Len(word)] \in {" ", "\t"})

\* the distinct lowercased skill strings of candidate c
SkillSet(c) == { Lower(c.skills.l[i]) : i \in 1..Len(c.skills.l) }

\* the skills of the set that occur among the tokens of the description
MatchedSkills(job_desc, c) ==
  { k \in SkillSet(c) : IsTokenOf(k, Lower(job_desc)) }

\* C13: for every scored candidate the skill sub-score is the number of
\* distinct lowercased skill strings that occur among the lowercased
\* whitespace-separated tokens of the job description, divided by the size
\* of the skill set; that size is not zero, the sub-score lies in [0,1], and
\* the reported skill_score is the sub-score times 100, rounded.
C13_SkillScoreIsMatchedShare ==
  Returned =>
    \A c \in Range(call.candidates) :
      Eligible(c) =>
        LET v       == SkillScore(call.job_description, c.skills)
            matched == Cardinality(MatchedSkills(call.job_description, c))
            size    == Cardinality(SkillSet(c))
        IN  /\ size > 0
            /\ v.err = ""
            /\ v.v[1] * size = matched * v.v[2]
            /\ 0 <= v.v[1] /\ v.v[1] <= v.v[2]
            /\ \A r \in ResultsFor(c) :
                 r.skill_score = RoundHalfEven(<<matched * 10000, size>>)

\* a returned call that scored the candidate with the skills SQL, python
\* and Sql for a description with the token Python: one of two distinct
\* skills matches
C13_Witness ==
  /\ Returned
  /\ call.job_description = ScenarioDescription
  /\ \E r \in ResultsFor(CandS) : r.skill_score = 5000
  /\ Cardinality(SkillSet(CandS)) = 2
  /\ Len(CandS.skills.l) = 3

\* the position in the input list of the candidate that result r is for
InputIndex(r) ==
  CHOOSE k \in 1..Len(call.candidates) :
    CandidateId(call.candidates[k]) = r.candidate_id

\* C14: of two results of one call, the one with the greater final_score
\* comes first, and of two results with equal final_score (as reported,
\* rounded to two decimals) the one whose candidate comes first in the
\* input list comes first.
C14_TiesKeepInputOrder ==
  Returned =>
    \A i, j \in 1..Len(call.results) :
      i < j =>
        \/ call.results[i].final_score > call.results[j].final_score
        \/ /\ call.results[i].final_score = call.results[j].final_score
           /\ InputIndex(call.results[i]) < InputIndex(call.results[j])

\* a returned list of three results, the first with the greatest score and
\* the other two tied, whose candidates were passed in another order
C14_Witness ==
  /\ Returned
  /\ Len(call.results) = 3
  /\ call.results[1].final_score > call.results[2].final_score
  /\ call.results[2].final_score = call.results[3].final_score
  /\ InputIndex(call.results[1]) > InputIndex(call.results[2])
  /\ InputIndex(call.results[2]) < InputIndex(call.results[3])

====
